---- MODULE Spec2Model ----
(***************************************************************************)
(* Model of examples/16_mnist_gan.py: the GAN training script.             *)
(*                                                                         *)
(* The script is a linear program; every statement of main and of          *)
(* training_loop that touches state is one action, sequenced by pc.        *)
(* Tensors are modelled by their number of rows, losses by small integers, *)
(* the two accumulators mean_*_loss by their numerator over display_step   *)
(* (every addend is loss / display_step), gradients by the set of losses   *)
(* whose backward pass contributed to them, parameters by the number of    *)
(* optimizer steps applied to them, file names by sequences of characters. *)
(***************************************************************************)
EXTENDS Integers, Sequences, FiniteSets, TLC

\* ---------------------------------------------------------------- bounds
MaxEpochs == 2
MaxFullBatches == 2
MaxDisplayStep == 3
MaxPrevTotal == 11
MaxRaised == 2

\* ------------------------------------------------------ program constants
BATCH_SIZE == 256
NUM_IMAGES == 25

TailSizes == {0, 20}
LossValues == {1, 2}
Nets == {"disc", "gen"}

VARIABLES
    pc, n_epochs, display_step, dataloader,
    epoch, batch_idx, cur_step, cur_batch_size,
    mean_generator_loss, mean_discriminator_loss, disc_loss, gen_loss,
    grad, params, fake, dir, frames, printed, completed,
    \* history variables
    disc_steps, gen_steps, batch_ops, snap_log, noise, disc_seen,
    acc_batches, raised

vars == <<pc, n_epochs, display_step, dataloader,
          epoch, batch_idx, cur_step, cur_batch_size,
          mean_generator_loss, mean_discriminator_loss, disc_loss, gen_loss,
          grad, params, fake, dir, frames, printed, completed,
          disc_steps, gen_steps, batch_ops, snap_log, noise, disc_seen,
          acc_batches, raised>>

\* ------------------------------------------------------------- strings
DigitChars == <<"0", "1", "2", "3", "4", "5", "6", "7", "8", "9">>

IsDigit(c) == \E i \in 1..10 : DigitChars[i] = c

DigitVal(c) == (CHOOSE i \in 1..10 : DigitChars[i] = c) - 1

\* f'{current_step}' : decimal formatting of a non-negative integer
RECURSIVE IntToStr(_)
IntToStr(k) ==
    IF k < 10 THEN <<DigitChars[k + 1]>>
    ELSE IntToStr(k \div 10) \o <<DigitChars[(k % 10) + 1]>>

\* int(s) for a string of decimal digits
RECURSIVE ParseInt(_)
ParseInt(s) ==
    IF Len(s) = 0 THEN 0
    ELSE 10 * ParseInt(SubSeq(s, 1, Len(s) - 1)) + DigitVal(s[Len(s)])

StartsWith(s, p) == Len(s) >= Len(p) /\ SubSeq(s, 1, Len(p)) = p

EndsWith(s, p) ==
    Len(s) >= Len(p) /\ SubSeq(s, Len(s) - Len(p) + 1, Len(s)) = p

\* s.split(sep)[-1] for a one-character separator
SplitLast(s, sep) ==
    LET hits == {i \in 1..Len(s) : s[i] = sep}
    IN  IF hits = {} THEN s
        ELSE LET last == CHOOSE i \in hits : \A j \in hits : j <= i
             IN  SubSeq(s, last + 1, Len(s))

\* s.split(p)[0]
SplitFirst(s, p) ==
    LET hits == {i \in 1..(Len(s) - Len(p) + 1) : SubSeq(s, i, i + Len(p) - 1) = p}
    IN  IF hits = {} THEN s
        ELSE LET first == CHOOSE i \in hits : \A j \in hits : i <= j
             IN  SubSeq(s, 1, first - 1)

FAKE_IMAGES == <<"f", "a", "k", "e", "_", "i", "m", "a", "g", "e", "s">>
STEP_INFIX == <<"_", "s", "t", "e", "p", "_">>
PNG == <<".", "p", "n", "g">>
GLOB_PREFIX == <<"f", "a", "k", "e", "_">>
GIF_NAME == <<"r", "e", "p", "l", "a", "y", "_", "f", "a", "k", "e", "_",
              "i", "m", "a", "g", "e", "s", "_", "g", "a", "n", ".", "g", "i", "f">>

\* f'{label}_step_{current_step}.png'
ImageName(label, current_step) ==
    label \o STEP_INFIX \o IntToStr(current_step) \o PNG

\* glob pattern fake_*.png
GlobMatch(name) ==
    /\ Len(name) >= Len(GLOB_PREFIX) + Len(PNG)
    /\ StartsWith(name, GLOB_PREFIX)
    /\ EndsWith(name, PNG)

\* key=lambda s: int(s.split('_')[-1].split('.png')[0])
SortKey(name) == ParseInt(SplitFirst(SplitLast(name, "_"), PNG))

\* lexicographic order of two digit strings
RECURSIVE LexLeq(_, _)
LexLeq(a, b) ==
    IF Len(a) = 0 THEN TRUE
    ELSE IF Len(b) = 0 THEN FALSE
    ELSE IF a[1] # b[1] THEN DigitVal(a[1]) < DigitVal(b[1])
    ELSE LexLeq(Tail(a), Tail(b))

KeyLeqLex(a, b) ==
    LexLeq(SplitFirst(SplitLast(a, "_"), PNG), SplitFirst(SplitLast(b, "_"), PNG))

\* the order sorted(..., key=...) puts two names in
KeyLeq(a, b) == SortKey(a) <= SortKey(b)

\* sorted(files, key=...) over the directory listing
RECURSIVE SortFiles(_)
SortFiles(S) ==
    IF S = {} THEN <<>>
    ELSE LET m == CHOOSE x \in S : \A y \in S : KeyLeq(x.name, y.name)
         IN  <<m>> \o SortFiles(S \ {m})

\* ---------------------------------------------------------- file system
ImageFile(name, step, run, images) ==
    [name |-> name, step |-> step, run |-> run, images |-> images]

\* save_image / ani.save: create the file or replace the one of that name
WriteFile(d, f) == {g \in d : g.name # f.name} \cup {f}

MinOf(a, b) == IF a < b THEN a ELSE b

\* image_unflat[:num_images]
StoredImages(rows, num_images) == MinOf(rows, num_images)

store_tensor_images(d, rows, label, current_step) ==
    WriteFile(d, ImageFile(ImageName(label, current_step), current_step, "this",
                           StoredImages(rows, NUM_IMAGES)))

\* what an earlier, longer run of the script (t0 batches, period d0) left behind
PrevRunFiles(d0, t0) ==
    {ImageFile(ImageName(FAKE_IMAGES, k), k, "prev", NUM_IMAGES) :
        k \in {j \in 1..(t0 - 1) : j % d0 = 0}}
    \cup {ImageFile(GIF_NAME, 0, "prev", Cardinality({j \in 1..(t0 - 1) : j % d0 = 0}))}

\* ----------------------------------------------------------- dataloader
DatasetSizes ==
    {f * BATCH_SIZE + r : f \in 0..MaxFullBatches, r \in TailSizes} \ {0}

NumBatches(size) == (size + BATCH_SIZE - 1) \div BATCH_SIZE

\* DataLoader(dataset, batch_size=BATCH_SIZE): sizes of the batches of an epoch
MakeDataLoader(size) ==
    [i \in 1..NumBatches(size) |->
        IF i * BATCH_SIZE <= size THEN BATCH_SIZE ELSE size - (i - 1) * BATCH_SIZE]

\* ------------------------------------------------------------- networks
get_noise_fixed(n_samples) == BATCH_SIZE

\* torch.randn(n_samples, z_dim): number of rows of the noise tensor
get_noise(n_samples) == n_samples

DiscOptParamsBoth == {"disc", "gen"}

\* AnalogSGD(disc.parameters())
DiscOptParams == {"disc"}

\* AnalogSGD(gen.parameters())
GenOptParams == {"gen"}

DiscLossGraphNoDetach == {"disc", "gen"}

\* networks reached by disc_loss.backward(): the fake images are detached
DiscLossGraph == {"disc"}

\* networks reached by gen_loss.backward(): disc(gen(noise)), nothing detached
GenLossGraph == {"disc", "gen"}

zero_grad(owned, g) == [n \in Nets |-> IF n \in owned THEN {} ELSE g[n]]

backward(graph, g, tag) ==
    [n \in Nets |-> IF n \in graph THEN g[n] \cup {tag} ELSE g[n]]

opt_step(owned, p) == [n \in Nets |-> IF n \in owned THEN p[n] + 1 ELSE p[n]]

\* --------------------------------------------------------- control flow
BodySwapped ==
    <<"gen_zero_grad", "gen_loss", "gen_backward", "gen_step",
      "disc_zero_grad", "disc_loss", "disc_backward", "disc_step">>

\* statement order of the update part of the loop body
Body ==
    <<"disc_zero_grad", "disc_loss", "disc_backward", "disc_step",
      "gen_zero_grad", "gen_loss", "gen_backward", "gen_step">>

After(p) ==
    LET i == CHOOSE j \in 1..Len(Body) : Body[j] = p
    IN  IF i < Len(Body) THEN Body[i + 1] ELSE "accumulate"

DisplayNoGuard(step, period) == step % period = 0

\* if cur_step % display_step == 0 and cur_step > 0
Display(step, period) == step % period = 0 /\ step > 0

\* statements that call into an external library and may raise
ExternalCalls ==
    {"load", "build", "disc_loss", "disc_backward", "disc_step",
     "gen_loss", "gen_backward", "gen_step", "snapshot", "store", "animate"}

ExceptionTargetRetry(p) == p

\* no try/except anywhere: an exception leaves main
ExceptionTarget(p) == "failed"

\* ------------------------------------------------------------------ Init
Init ==
    /\ pc = "makedirs"
    /\ n_epochs \in 0..MaxEpochs
    /\ display_step \in 1..MaxDisplayStep
    /\ dataloader \in {MakeDataLoader(s) : s \in DatasetSizes}
    /\ dir \in {{}} \cup {PrevRunFiles(d0, MaxPrevTotal) : d0 \in 1..MaxDisplayStep}
    /\ epoch = 0 /\ batch_idx = 0 /\ cur_step = 0 /\ cur_batch_size = 0
    /\ mean_generator_loss = 0 /\ mean_discriminator_loss = 0
    /\ disc_loss = 0 /\ gen_loss = 0
    /\ grad = [n \in Nets |-> {}]
    /\ params = [n \in Nets |-> 0]
    /\ fake = 0
    /\ frames = <<>>
    /\ printed = <<>>
    /\ completed = FALSE
    /\ disc_steps = 0 /\ gen_steps = 0
    /\ batch_ops = <<>>
    /\ snap_log = <<>>
    /\ noise = [disc |-> 0, gen |-> 0, snap |-> 0]
    /\ disc_seen = [real |-> 0, fake |-> 0]
    /\ acc_batches = 0
    /\ raised = 0

cfgVars == <<n_epochs, display_step, dataloader>>
loopVars == <<epoch, batch_idx, cur_step, cur_batch_size>>
lossVars == <<mean_generator_loss, mean_discriminator_loss, disc_loss, gen_loss>>
netVars == <<grad, params>>
outVars == <<dir, frames, printed, completed>>
histVars == <<disc_steps, gen_steps, batch_ops, snap_log, noise, disc_seen,
              acc_batches, raised>>

\* ------------------------------------------------------------------ main
Makedirs ==
    /\ pc = "makedirs"
    /\ pc' = "load"
    /\ UNCHANGED <<cfgVars, loopVars, lossVars, netVars, outVars, histVars, fake>>

LoadData ==
    /\ pc = "load"
    /\ pc' = "build"
    /\ UNCHANGED <<cfgVars, loopVars, lossVars, netVars, outVars, histVars, fake>>

BuildModels ==
    /\ pc = "build"
    /\ pc' = "loop_init"
    /\ grad' = [n \in Nets |-> {}]
    /\ params' = [n \in Nets |-> 0]
    /\ UNCHANGED <<cfgVars, loopVars, lossVars, outVars, histVars, fake>>

\* --------------------------------------------------------- training_loop
LoopInit ==
    /\ pc = "loop_init"
    /\ cur_step' = 0
    /\ mean_generator_loss' = 0
    /\ mean_discriminator_loss' = 0
    /\ epoch' = 0
    /\ pc' = "epoch_head"
    /\ UNCHANGED <<cfgVars, batch_idx, cur_batch_size, disc_loss, gen_loss,
                   netVars, outVars, histVars, fake>>

EpochHeadResetsStep ==
    /\ pc = "epoch_head"
    /\ IF epoch < n_epochs
       THEN /\ batch_idx' = 0
            /\ cur_step' = 0
            /\ pc' = "batch_head"
       ELSE /\ pc' = "animate"
            /\ UNCHANGED <<batch_idx, cur_step>>
    /\ UNCHANGED <<cfgVars, epoch, cur_batch_size, lossVars, netVars,
                   outVars, histVars, fake>>

\* for _ in range(n_epochs)
EpochHead ==
    /\ pc = "epoch_head"
    /\ IF epoch < n_epochs
       THEN /\ batch_idx' = 0
            /\ pc' = "batch_head"
       ELSE /\ pc' = "animate"
            /\ UNCHANGED batch_idx
    /\ UNCHANGED <<cfgVars, epoch, cur_step, cur_batch_size, lossVars, netVars,
                   outVars, histVars, fake>>

\* for real, _ in dataloader ; cur_batch_size = len(real)
NextBatch ==
    /\ pc = "batch_head"
    /\ IF batch_idx < Len(dataloader)
       THEN /\ batch_idx' = batch_idx + 1
            /\ cur_batch_size' = dataloader[batch_idx + 1]
            /\ batch_ops' = <<>>
            /\ pc' = Body[1]
            /\ UNCHANGED epoch
       ELSE /\ epoch' = epoch + 1
            /\ pc' = "epoch_head"
            /\ UNCHANGED <<batch_idx, cur_batch_size, batch_ops>>
    /\ UNCHANGED <<cfgVars, cur_step, lossVars, netVars, outVars, fake,
                   disc_steps, gen_steps, snap_log, noise, disc_seen,
                   acc_batches, raised>>

DiscZeroGrad ==
    /\ pc = "disc_zero_grad"
    /\ grad' = zero_grad(DiscOptParams, grad)
    /\ batch_ops' = Append(batch_ops, "disc_zero_grad")
    /\ pc' = After("disc_zero_grad")
    /\ UNCHANGED <<cfgVars, loopVars, lossVars, params, outVars, fake,
                   disc_steps, gen_steps, snap_log, noise, disc_seen,
                   acc_batches, raised>>

\* get_disc_loss(gen, disc, criterion, real, cur_batch_size, Z_DIM, DEVICE)
DiscLoss ==
    /\ pc = "disc_loss"
    /\ \E l \in LossValues : disc_loss' = l
    /\ noise' = [noise EXCEPT !.disc = get_noise(cur_batch_size)]
    /\ disc_seen' = [real |-> cur_batch_size, fake |-> get_noise(cur_batch_size)]
    /\ batch_ops' = Append(batch_ops, "disc_loss")
    /\ pc' = After("disc_loss")
    /\ UNCHANGED <<cfgVars, loopVars, mean_generator_loss, mean_discriminator_loss,
                   gen_loss, netVars, outVars, fake,
                   disc_steps, gen_steps, snap_log, acc_batches, raised>>

DiscBackward ==
    /\ pc = "disc_backward"
    /\ grad' = backward(DiscLossGraph, grad, <<"disc_loss", cur_step>>)
    /\ batch_ops' = Append(batch_ops, "disc_backward")
    /\ pc' = After("disc_backward")
    /\ UNCHANGED <<cfgVars, loopVars, lossVars, params, outVars, fake,
                   disc_steps, gen_steps, snap_log, noise, disc_seen,
                   acc_batches, raised>>

DiscStep ==
    /\ pc = "disc_step"
    /\ params' = opt_step(DiscOptParams, params)
    /\ disc_steps' = disc_steps + 1
    /\ batch_ops' = Append(batch_ops, "disc_step")
    /\ pc' = After("disc_step")
    /\ UNCHANGED <<cfgVars, loopVars, lossVars, grad, outVars, fake,
                   gen_steps, snap_log, noise, disc_seen, acc_batches, raised>>

GenZeroGrad ==
    /\ pc = "gen_zero_grad"
    /\ grad' = zero_grad(GenOptParams, grad)
    /\ batch_ops' = Append(batch_ops, "gen_zero_grad")
    /\ pc' = After("gen_zero_grad")
    /\ UNCHANGED <<cfgVars, loopVars, lossVars, params, outVars, fake,
                   disc_steps, gen_steps, snap_log, noise, disc_seen,
                   acc_batches, raised>>

\* get_gen_loss(gen, disc, criterion, cur_batch_size, Z_DIM, DEVICE)
GenLoss ==
    /\ pc = "gen_loss"
    /\ \E l \in LossValues : gen_loss' = l
    /\ noise' = [noise EXCEPT !.gen = get_noise(cur_batch_size)]
    /\ batch_ops' = Append(batch_ops, "gen_loss")
    /\ pc' = After("gen_loss")
    /\ UNCHANGED <<cfgVars, loopVars, mean_generator_loss, mean_discriminator_loss,
                   disc_loss, netVars, outVars, fake,
                   disc_steps, gen_steps, snap_log, disc_seen, acc_batches, raised>>

GenBackward ==
    /\ pc = "gen_backward"
    /\ grad' = backward(GenLossGraph, grad, <<"gen_loss", cur_step>>)
    /\ batch_ops' = Append(batch_ops, "gen_backward")
    /\ pc' = After("gen_backward")
    /\ UNCHANGED <<cfgVars, loopVars, lossVars, params, outVars, fake,
                   disc_steps, gen_steps, snap_log, noise, disc_seen,
                   acc_batches, raised>>

GenStep ==
    /\ pc = "gen_step"
    /\ params' = opt_step(GenOptParams, params)
    /\ gen_steps' = gen_steps + 1
    /\ batch_ops' = Append(batch_ops, "gen_step")
    /\ pc' = After("gen_step")
    /\ UNCHANGED <<cfgVars, loopVars, lossVars, grad, outVars, fake,
                   disc_steps, snap_log, noise, disc_seen, acc_batches, raised>>

\* mean_*_loss += loss.item() / display_step   (numerators over display_step)
Accumulate ==
    /\ pc = "accumulate"
    /\ mean_discriminator_loss' = mean_discriminator_loss + disc_loss
    /\ mean_generator_loss' = mean_generator_loss + gen_loss
    /\ acc_batches' = acc_batches + 1
    /\ pc' = "display"
    /\ UNCHANGED <<cfgVars, loopVars, disc_loss, gen_loss, netVars, outVars, fake,
                   disc_steps, gen_steps, batch_ops, snap_log, noise, disc_seen,
                   raised>>

\* the if of the visualization code, and the print inside it
DisplayCheck ==
    /\ pc = "display"
    /\ IF Display(cur_step, display_step)
       THEN /\ printed' = <<[step |-> cur_step,
                             generator |-> mean_generator_loss,
                             discriminator |-> mean_discriminator_loss,
                             batches |-> acc_batches]>>
            /\ pc' = "snapshot"
       ELSE /\ pc' = "increment"
            /\ UNCHANGED printed
    /\ UNCHANGED <<cfgVars, loopVars, lossVars, netVars, dir, frames, completed,
                   fake, histVars>>

\* fake_noise = get_noise(cur_batch_size, ...) ; fake = gen(fake_noise)
Snapshot ==
    /\ pc = "snapshot"
    /\ noise' = [noise EXCEPT !.snap = get_noise(cur_batch_size)]
    /\ fake' = get_noise(cur_batch_size)
    /\ pc' = "store"
    /\ UNCHANGED <<cfgVars, loopVars, lossVars, netVars, outVars,
                   disc_steps, gen_steps, batch_ops, snap_log, disc_seen,
                   acc_batches, raised>>

\* store_tensor_images(fake, 'fake_images', cur_step)
StoreImages ==
    /\ pc = "store"
    /\ dir' = store_tensor_images(dir, fake, FAKE_IMAGES, cur_step)
    /\ snap_log' = Append(snap_log, cur_step)
    /\ pc' = "reset"
    /\ UNCHANGED <<cfgVars, loopVars, lossVars, netVars, frames, printed, completed,
                   fake, disc_steps, gen_steps, batch_ops, noise, disc_seen,
                   acc_batches, raised>>

ResetMeans ==
    /\ pc = "reset"
    /\ mean_generator_loss' = 0
    /\ mean_discriminator_loss' = 0
    /\ acc_batches' = 0
    /\ pc' = "increment"
    /\ UNCHANGED <<cfgVars, loopVars, disc_loss, gen_loss, netVars, outVars, fake,
                   disc_steps, gen_steps, batch_ops, snap_log, noise, disc_seen,
                   raised>>

Increment ==
    /\ pc = "increment"
    /\ cur_step' = cur_step + 1
    /\ pc' = "batch_head"
    /\ UNCHANGED <<cfgVars, epoch, batch_idx, cur_batch_size, lossVars, netVars,
                   outVars, fake, histVars>>

\* ------------------------------------------------- after the training loop
show_animation_fake_images ==
    /\ pc = "animate"
    /\ LET sorted_available_images == SortFiles({f \in dir : GlobMatch(f.name)})
       IN  /\ frames' = sorted_available_images
           /\ dir' = WriteFile(dir, ImageFile(GIF_NAME, 0, "this",
                                              Len(sorted_available_images)))
    /\ pc' = "completed"
    /\ UNCHANGED <<cfgVars, loopVars, lossVars, netVars, printed, completed, fake,
                   histVars>>

PrintCompleted ==
    /\ pc = "completed"
    /\ completed' = TRUE
    /\ pc' = "done"
    /\ UNCHANGED <<cfgVars, loopVars, lossVars, netVars, dir, frames, printed, fake,
                   histVars>>

\* an external call raises
Raise ==
    /\ pc \in ExternalCalls
    /\ raised < MaxRaised
    /\ raised' = raised + 1
    /\ pc' = ExceptionTarget(pc)
    /\ UNCHANGED <<cfgVars, loopVars, lossVars, netVars, outVars, fake,
                   disc_steps, gen_steps, batch_ops, snap_log, noise, disc_seen,
                   acc_batches>>

Next ==
    \/ Makedirs \/ LoadData \/ BuildModels
    \/ LoopInit \/ EpochHead \/ NextBatch
    \/ DiscZeroGrad \/ DiscLoss \/ DiscBackward \/ DiscStep
    \/ GenZeroGrad \/ GenLoss \/ GenBackward \/ GenStep
    \/ Accumulate \/ DisplayCheck \/ Snapshot \/ StoreImages \/ ResetMeans
    \/ Increment
    \/ show_animation_fake_images \/ PrintCompleted
    \/ Raise

Spec == Init /\ [][Next]_vars

\* ---------------------------------------------------------------- claims
IsPrefix(s, t) == Len(s) <= Len(t) /\ SubSeq(t, 1, Len(s)) = s

Range(s) == {s[i] : i \in 1..Len(s)}

TotalBatches == n_epochs * Len(dataloader)

UpdatePcs ==
    {"disc_zero_grad", "disc_loss", "disc_backward", "disc_step",
     "gen_zero_grad", "gen_loss", "gen_backward", "gen_step"}

TailPcs == {"accumulate", "display", "snapshot", "store", "reset", "increment"}

PostTrainingPcs == {"animate", "completed", "done"}

CanonicalOrder ==
    <<"disc_zero_grad", "disc_loss", "disc_backward", "disc_step",
      "gen_zero_grad", "gen_loss", "gen_backward", "gen_step">>

\* C1: every batch gets exactly one discriminator step and one generator
\* step; the discriminator step of a batch comes before the generator step
\* of that batch and after the generator step of the previous batch, and the
\* statements of a batch run in the order disc zero_grad, loss, backward,
\* step, gen zero_grad, loss, backward, step.
C1_UpdateOrder ==
    /\ IsPrefix(batch_ops, CanonicalOrder)
    /\ gen_steps <= disc_steps
    /\ disc_steps <= gen_steps + 1
    /\ pc \in UpdatePcs =>
          /\ gen_steps = cur_step
          /\ disc_steps = cur_step + (IF "disc_step" \in Range(batch_ops) THEN 1 ELSE 0)
    /\ pc \in TailPcs =>
          /\ batch_ops = CanonicalOrder
          /\ disc_steps = cur_step + 1
          /\ gen_steps = cur_step + 1
    /\ pc = "batch_head" => (disc_steps = cur_step /\ gen_steps = cur_step)

C1_Witness == pc = "increment" /\ epoch >= 1 /\ cur_step >= 3

\* C2: a snapshot fake_images_step_<k> is written in the iteration with step
\* counter k iff k > 0 and k is a multiple of display_step; none at step 0;
\* after T batches exactly floor((T-1)/display_step) snapshots exist (none
\* when T <= display_step), all with distinct step numbers.
C2_SnapshotPeriod ==
    /\ \A i \in 1..Len(snap_log) :
          /\ snap_log[i] > 0
          /\ snap_log[i] % display_step = 0
          /\ snap_log[i] <= cur_step
          /\ \E f \in dir : f.run = "this" /\ f.step = snap_log[i]
                            /\ f.name = ImageName(FAKE_IMAGES, snap_log[i])
    /\ \A i, j \in 1..Len(snap_log) : i # j => snap_log[i] # snap_log[j]
    /\ \A k \in 0..(cur_step - 1) :
          (k > 0 /\ k % display_step = 0) => k \in Range(snap_log)
    /\ pc \in PostTrainingPcs =>
          Len(snap_log) = (IF TotalBatches <= display_step THEN 0
                           ELSE (TotalBatches - 1) \div display_step)

C2_Witness == pc = "done" /\ Len(snap_log) >= 2 /\ display_step >= 2

\* C3: the animation is assembled only after training_loop has returned; once
\* it starts no optimizer step and no snapshot write happens; its frames are
\* in strictly increasing numeric order of the step number of their file.
C3_AnimationAfterTraining ==
    [][ /\ pc = "animate" => (epoch = n_epochs /\ cur_step = TotalBatches)
        /\ pc \in PostTrainingPcs =>
              /\ UNCHANGED <<disc_steps, gen_steps, snap_log, params>>
              /\ pc' \in PostTrainingPcs \cup {"failed"}
              /\ {f \in dir' : f.name # GIF_NAME} = {f \in dir : f.name # GIF_NAME}
        /\ frames' # frames => pc = "animate"
        /\ \A i, j \in 1..Len(frames') : i < j => frames'[i].step < frames'[j].step
      ]_vars

C3_Witness ==
    /\ pc = "done"
    /\ disc_steps >= 2
    /\ \E i \in 1..Len(frames) : frames[i].run = "this"
    /\ \E i, j \in 1..Len(frames) :
          i < j /\ frames[i].step \in 2..9 /\ frames[j].step >= 10

C5_FailureStopsRun ==
    [][ /\ raised' > 0 => (pc' = "failed" /\ raised' = 1 /\ ~completed')
        /\ raised' > raised =>
              UNCHANGED <<dir, frames, completed, disc_steps, gen_steps,
                          snap_log, params>>
        /\ raised > 0 => vars' = vars
      ]_vars

C5_Witness == pc = "failed" /\ raised = 1 /\ Len(snap_log) >= 1 /\ ~completed

\* C6: at every progress report the printed means cover exactly display_step
\* batches (those since the previous report, or since the start of training
\* for the first report), and the accumulators are reset at each report.
C6_MeansOverDisplayStepBatches ==
    /\ printed # <<>> => printed[1].batches = display_step
    /\ pc = "increment" /\ Display(cur_step, display_step) =>
          (mean_generator_loss = 0 /\ mean_discriminator_loss = 0)

\* C7: training_loop runs exactly n_epochs * B iterations; cur_step starts at
\* 0, grows by 1 per iteration, is never reset at an epoch boundary, equals
\* the number of batches already processed at the start of every iteration,
\* and on return equals n_epochs * B, as do both optimizer step counts.
C7_StepCounter ==
    /\ pc \in {"makedirs", "load", "build", "loop_init"} => cur_step = 0
    /\ pc \in {"epoch_head"} \cup PostTrainingPcs =>
          cur_step = epoch * Len(dataloader)
    /\ pc = "batch_head" => cur_step = epoch * Len(dataloader) + batch_idx
    /\ pc \in UpdatePcs \cup TailPcs =>
          cur_step = epoch * Len(dataloader) + batch_idx - 1
    /\ cur_step <= TotalBatches
    /\ pc \in UpdatePcs \cup TailPcs => cur_step < TotalBatches
    /\ pc \in PostTrainingPcs =>
          /\ cur_step = TotalBatches
          /\ disc_steps = TotalBatches
          /\ gen_steps = TotalBatches

C7_Witness == pc = "done" /\ n_epochs >= 2 /\ Len(dataloader) >= 2

BatchSizeAt(k) == dataloader[(k % Len(dataloader)) + 1]

\* C8: in every iteration, also for a final batch smaller than BATCH_SIZE,
\* the noise drawn for the discriminator loss, the generator loss and the
\* snapshot has as many rows as the batch of real images, the discriminator
\* sees as many fake as real images, and a snapshot shows
\* min(25, cur_batch_size) images.
C8_NoiseMatchesBatch ==
    /\ (pc \in UpdatePcs \cup TailPcs /\ "disc_loss" \in Range(batch_ops)) =>
          /\ noise.disc = cur_batch_size
          /\ disc_seen.real = cur_batch_size
          /\ disc_seen.fake = disc_seen.real
    /\ (pc \in UpdatePcs \cup TailPcs /\ "gen_loss" \in Range(batch_ops)) =>
          noise.gen = cur_batch_size
    /\ pc \in {"store", "reset"} =>
          (noise.snap = cur_batch_size /\ fake = cur_batch_size)
    /\ pc \in UpdatePcs \cup TailPcs => cur_batch_size = BatchSizeAt(cur_step)
    /\ \A f \in dir : (f.run = "this" /\ f.name # GIF_NAME) =>
          f.images = (IF BatchSizeAt(f.step) < 25 THEN BatchSizeAt(f.step) ELSE 25)

C8_Witness ==
    /\ pc = "reset"
    /\ cur_batch_size < 25
    /\ \E f \in dir : f.run = "this" /\ f.step = cur_step /\ f.images = cur_batch_size

\* C9: when disc_opt.step runs the discriminator's gradients come only from
\* the current batch's discriminator loss; when gen_opt.step runs the
\* generator's gradients come only from the current batch's generator loss;
\* what the generator loss leaves on the discriminator is cleared before the
\* next discriminator backward pass; the discriminator loss never leaves a
\* gradient on the generator.
C9_GradientIsolation ==
    /\ pc = "disc_step" => grad["disc"] = {<<"disc_loss", cur_step>>}
    /\ pc = "gen_step" => grad["gen"] = {<<"gen_loss", cur_step>>}
    /\ pc = "disc_backward" => grad["disc"] = {}
    /\ \A t \in grad["gen"] : t[1] = "gen_loss"

C9_Witness ==
    /\ pc = "disc_backward"
    /\ cur_step >= 1
    /\ grad["gen"] = {<<"gen_loss", cur_step - 1>>}

\* C10: a discriminator step changes no generator parameter, a generator
\* step changes no discriminator parameter, and rendering a snapshot changes
\* neither the parameters nor the gradients of either network.
C10_OptimizerFrame ==
    [][ /\ disc_steps' # disc_steps =>
              (params'["gen"] = params["gen"] /\ params'["disc"] # params["disc"])
        /\ gen_steps' # gen_steps =>
              (params'["disc"] = params["disc"] /\ params'["gen"] # params["gen"])
        /\ pc \in {"snapshot", "store"} => UNCHANGED <<params, grad>>
      ]_vars

C10_Witness == pc = "reset" /\ params["disc"] >= 2 /\ params["gen"] >= 2
====
